---- MODULE Spec2Model ----
(***************************************************************************)
(* Model of openai.py: the module body (lines 3, 17, 18) and the function  *)
(* classify_bird (lines 5-15), run against a file system and a             *)
(* deterministic stand-in for the remote chat-completion service.          *)
(*                                                                         *)
(* classify_bird is modelled statement by statement:                       *)
(*   line 6      open(image_path, "rb") and entry of the with block        *)
(*   lines 7-14  openai.ChatCompletion.create(...)                         *)
(*   line 6      exit of the with block (normal or exceptional)            *)
(*   line 15     response["choices"][0]["message"]["content"]              *)
(* Python exceptions keep their Python names; Kind maps them to the error  *)
(* kinds the specification speaks of.                                      *)
(*                                                                         *)
(* Line 1, import openai, sits in a file that is itself named openai.py.   *)
(* When the file is run as a script its directory comes first on sys.path, *)
(* and the name openai is then bound to this very module, which has no     *)
(* attribute ChatCompletion; otherwise it is bound to the client library   *)
(* (or a stand-in for it).  openai_binding records which.                  *)
(***************************************************************************)
EXTENDS Naturals, Sequences, FiniteSets, TLC

VARIABLES
    disk,          \* path -> "ENOENT" | "EACCES" | the bytes of the file
    stub,          \* the remote service: image bytes -> what create() does
    api_key,       \* openai.api_key, process-wide
    caller_pc,     \* position of the caller of classify_bird
    pc,            \* position inside classify_bird ("none" when not running)
    image_path,    \* argument of classify_bird
    image_file,    \* <<>> or <<handle>>: the object bound by the with statement
    response,      \* <<>> (unbound) or <<response>>: local of classify_bird
    exc,           \* "none" or the Python exception in flight / raised
    result,        \* <<>> or <<text>>: the value returned by classify_bird
    open_files,    \* handles of the process that are currently open
    requests,      \* outbound requests issued so far, each tagged with its call
    ncalls,        \* number of calls to classify_bird started so far
    history,       \* outcomes of the finished calls, in order
    bird_species,  \* <<>> or <<text>>: module-level variable of line 17
    stdout,        \* what the process has written to standard output
    at_entry,      \* disk and api_key as they were when the current call began
    openai_binding \* what the name openai of line 1 is bound to

vars == <<disk, stub, api_key, caller_pc, pc, image_path, image_file, response,
          exc, result, open_files, requests, ncalls, history, bird_species, stdout,
          at_entry, openai_binding>>

\* ------------------------------------------------------------------ bounds
MaxChoices == 2
MaxCalls == 2

\* --------------------------------------------------------------- the world
Paths == {"bird_image.jpg", "other.jpg"}
NoFile == {"ENOENT", "EACCES"}
Bytes == {"", "JFIF"}
Texts == {"Northern Cardinal", "Blue Jay"}
RemoteErrors == {"APIConnectionError", "Timeout", "AuthenticationError"}

SeqUpTo(S, n) == UNION {[1..k -> S] : k \in 0..n}

Choice == {[message |-> [content |-> t]] : t \in Texts}
Responses == {[choices |-> c] : c \in SeqUpTo(Choice, MaxChoices)}

\* What one call of create() does: raise, or return a response.
Behaviours ==
    {[raises |-> e, response |-> [choices |-> <<>>]] : e \in RemoteErrors}
    \cup {[raises |-> "none", response |-> r] : r \in Responses}

\* ------------------------------------------------ constants of the program
ApiKeyLiteral == "your_openai_api_key"
ScriptPath == "bird_image.jpg"
ModelName == "gpt-4-turbo"
OpenModeRWTrunc == "w+b"
OpenMode == "rb"
Messages ==
    << [role |-> "system", content |-> "You are a bird species identification assistant."],
       [role |-> "user", content |-> "Identify the bird in this image."] >>

\* ----------------------------------------------------- Python's open()
\* open(p, mode) on disk d: the exception it raises ("none" if it opens) and
\* the disk afterwards.  "rb" never changes the disk; "w+b" creates or
\* truncates the file.
PyOpen(d, p, mode) ==
    IF d[p] = "EACCES" THEN [raises |-> "PermissionError", disk |-> d]
    ELSE IF mode = "rb"
         THEN IF d[p] = "ENOENT"
              THEN [raises |-> "FileNotFoundError", disk |-> d]
              ELSE [raises |-> "none", disk |-> d]
         ELSE [raises |-> "none", disk |-> [d EXCEPT ![p] = ""]]

\* ---------------------------------------------------------- classify_bird
\* line 6: with open(image_path, "rb") as image_file
OpenStep ==
    /\ pc = "open"
    /\ LET o == PyOpen(disk, image_path, OpenMode) IN
         /\ disk' = o.disk
         /\ IF o.raises = "none"
            THEN /\ image_file' = <<[path |-> image_path, call |-> ncalls]>>
                 /\ open_files' = open_files \cup {[path |-> image_path, call |-> ncalls]}
                 /\ exc' = exc
                 /\ pc' = "create"
            ELSE /\ exc' = o.raises
                 /\ pc' = "raised"
                 /\ UNCHANGED <<image_file, open_files>>
    /\ UNCHANGED <<at_entry, openai_binding, stub, api_key, caller_pc, image_path,
                   response, result,
                   requests, ncalls, history, bird_species, stdout>>

\* The request create() sends: built from the literals of lines 8-13, the
\* bytes behind image_file and the process-wide credential.
BuildRequest(f) ==
    [model |-> ModelName, messages |-> Messages,
     files |-> <<"image", disk[f.path]>>, api_key |-> api_key]

\* What the request log holds after create() has run for call n.
SendOnce(log, n, req) == Append(log, [call |-> n, request |-> req])
SendTwice(log, n, req) == Append(SendOnce(log, n, req), [call |-> n, request |-> req])
Send(log, n, req) == SendOnce(log, n, req)

\* lines 7-14: response = openai.ChatCompletion.create(...)
\* The attribute lookup openai.ChatCompletion comes first: on this module
\* itself it raises AttributeError and nothing is sent.
CreateStep ==
    /\ pc = "create"
    /\ IF openai_binding = "self"
       THEN /\ exc' = "AttributeError"
            /\ UNCHANGED <<requests, response>>
       ELSE LET req == BuildRequest(image_file[1])
                b == stub[req.files[2]] IN
              /\ requests' = Send(requests, ncalls, req)
              /\ IF b.raises = "none"
                 THEN /\ response' = <<b.response>>
                      /\ exc' = exc
                 ELSE /\ exc' = b.raises
                      /\ response' = response
    /\ pc' = "with_exit"
    /\ UNCHANGED <<at_entry, openai_binding, disk, stub, api_key, caller_pc,
                   image_path, image_file, result,
                   open_files, ncalls, history, bird_species, stdout>>

\* The file object's __exit__: does it close the file, given the exception in
\* flight, and does it suppress that exception.
ClosesOnlyOnSuccess(e) == e = "none"
Closes(e) == TRUE
SuppressesAlways(e) == TRUE
Suppresses(e) == FALSE

\* Leaving the with block the way a cleanup that also deletes the uploaded
\* file would.
WithExitStepUnlinks ==
    /\ pc = "with_exit"
    /\ open_files' = open_files \ {image_file[1]}
    /\ disk' = [disk EXCEPT ![image_path] = "ENOENT"]
    /\ IF exc # "none"
       THEN /\ pc' = "raised"
            /\ exc' = exc
       ELSE /\ pc' = "extract"
            /\ exc' = "none"
    /\ UNCHANGED <<at_entry, openai_binding, stub, api_key, caller_pc, image_path,
                   image_file,
                   response, result, requests, ncalls, history, bird_species, stdout>>

\* line 6: leaving the with block, normally or with an exception in flight
WithExitStep ==
    /\ pc = "with_exit"
    /\ open_files' = IF Closes(exc) THEN open_files \ {image_file[1]} ELSE open_files
    /\ IF exc # "none" /\ ~Suppresses(exc)
       THEN /\ pc' = "raised"
            /\ exc' = exc
       ELSE /\ pc' = "extract"
            /\ exc' = "none"
    /\ UNCHANGED <<at_entry, openai_binding, disk, stub, api_key, caller_pc,
                   image_path, image_file, response,
                   result, requests, ncalls, history, bird_species, stdout>>

\* Index of the choice line 15 reads, among n choices (Python's [0], 1-based here).
LastIndex(n) == n
Index(n) == 1

\* What line 15 does with an empty choices sequence.
EmptyChoicesReturnsBlank == [raises |-> "none", value |-> <<"">>]
EmptyChoices == [raises |-> "IndexError", value |-> <<>>]

\* response["choices"][0]["message"]["content"] evaluated on local r
\* (<<>> when the name response is unbound).
Extract(r) ==
    IF r = <<>> THEN [raises |-> "UnboundLocalError", value |-> <<>>]
    ELSE IF Len(r[1].choices) = 0 THEN EmptyChoices
    ELSE [raises |-> "none",
          value |-> <<r[1].choices[Index(Len(r[1].choices))].message.content>>]

\* line 15: return response["choices"][0]["message"]["content"]
ExtractStep ==
    /\ pc = "extract"
    /\ LET x == Extract(response) IN
         IF x.raises = "none"
         THEN /\ result' = x.value
              /\ exc' = exc
              /\ pc' = "returned"
         ELSE /\ exc' = x.raises
              /\ result' = result
              /\ pc' = "raised"
    /\ UNCHANGED <<at_entry, openai_binding, disk, stub, api_key, caller_pc,
                   image_path, image_file, response,
                   open_files, requests, ncalls, history, bird_species, stdout>>

classify_bird == OpenStep \/ CreateStep \/ WithExitStep \/ ExtractStep

\* How a finished call ended.
Outcome == [path |-> image_path, raised |-> exc, value |-> result]

\* ------------------------------------------------- a caller of classify_bird
TypeInit ==
    /\ disk \in [Paths -> NoFile \cup Bytes]
    /\ stub \in [Bytes -> Behaviours]
    /\ pc = "none"
    /\ image_path = ""
    /\ image_file = <<>>
    /\ response = <<>>
    /\ exc = "none"
    /\ result = <<>>
    /\ open_files = {}
    /\ requests = <<>>
    /\ ncalls = 0
    /\ history = <<>>
    /\ bird_species = <<>>
    /\ stdout = <<>>
    /\ at_entry = [disk |-> disk, api_key |-> "unset"]

\* The module has been loaded against the client library or a stand-in for it
\* (line 3 has run); a caller is about to use classify_bird.
Init ==
    /\ TypeInit
    /\ openai_binding = "library"
    /\ api_key = ApiKeyLiteral
    /\ caller_pc = "ready"

\* classify_bird(p) is called: a fresh frame.
Enter(p) ==
    /\ ncalls' = ncalls + 1
    /\ image_path' = p
    /\ image_file' = <<>>
    /\ response' = <<>>
    /\ exc' = "none"
    /\ result' = <<>>
    /\ at_entry' = [disk |-> disk, api_key |-> api_key]
    /\ pc' = "open"

Call ==
    /\ caller_pc = "ready"
    /\ ncalls < MaxCalls
    /\ \E p \in Paths : Enter(p)
    /\ caller_pc' = "waiting"
    /\ UNCHANGED <<openai_binding, disk, stub, api_key, open_files, requests,
                   history, bird_species, stdout>>

\* The call is over (returned or raised); the caller notes how it ended.
Finish ==
    /\ caller_pc = "waiting"
    /\ pc \in {"returned", "raised"}
    /\ history' = Append(history, Outcome)
    /\ pc' = "none"
    /\ caller_pc' = "ready"
    /\ UNCHANGED <<at_entry, openai_binding, disk, stub, api_key, image_path,
                   image_file, response, exc,
                   result, open_files, requests, ncalls, bird_species, stdout>>

Next == Call \/ OpenStep \/ CreateStep \/ WithExitStep \/ ExtractStep \/ Finish

Spec == Init /\ [][Next]_vars

\* -------------------------------------------------------- the module body
\* The process starts executing openai.py from the top.
ScriptInit ==
    /\ TypeInit
    /\ openai_binding \in {"library", "self"}
    /\ api_key = "unset"
    /\ caller_pc = "line1"

\* line 1: import openai.  Bound to the library, execution goes on to line 3.
\* Bound to this file, the import runs this file's body, lines 3 and 17, as
\* the module openai; an exception raised there leaves through the import.
ImportStep ==
    /\ caller_pc = "line1"
    /\ caller_pc' = "line3"
    /\ UNCHANGED <<at_entry, openai_binding, disk, stub, api_key, pc, image_path,
                   image_file, response, exc, result, open_files, requests, ncalls,
                   history, bird_species, stdout>>

\* line 3: openai.api_key = "your_openai_api_key"
SetApiKey ==
    /\ caller_pc = "line3"
    /\ api_key' = ApiKeyLiteral
    /\ caller_pc' = "line17"
    /\ UNCHANGED <<at_entry, openai_binding, disk, stub, pc, image_path, image_file,
                   response, exc, result,
                   open_files, requests, ncalls, history, bird_species, stdout>>

\* line 17: bird_species = classify_bird("bird_image.jpg"), the call
ScriptCall ==
    /\ caller_pc = "line17"
    /\ Enter(ScriptPath)
    /\ caller_pc' = "line17_wait"
    /\ UNCHANGED <<openai_binding, disk, stub, api_key, open_files, requests,
                   history, bird_species, stdout>>

\* line 17: the call returned; the assignment
ScriptAssign ==
    /\ caller_pc = "line17_wait"
    /\ pc = "returned"
    /\ bird_species' = result
    /\ history' = Append(history, Outcome)
    /\ pc' = "none"
    /\ caller_pc' = "line18"
    /\ UNCHANGED <<at_entry, openai_binding, disk, stub, api_key, image_path,
                   image_file, response, exc,
                   result, open_files, requests, ncalls, stdout>>

\* line 17: the call raised; nothing catches it, the interpreter exits
ScriptCrash ==
    /\ caller_pc = "line17_wait"
    /\ pc = "raised"
    /\ history' = Append(history, Outcome)
    /\ pc' = "none"
    /\ caller_pc' = "exit1"
    /\ UNCHANGED <<at_entry, openai_binding, disk, stub, api_key, image_path,
                   image_file, response, exc,
                   result, open_files, requests, ncalls, bird_species, stdout>>

\* print(a, b): the two arguments joined by a blank, ended by a newline.
PrintedGlued(a, b) == a \o b \o "\n"
Printed(a, b) == a \o " " \o b \o "\n"

\* line 18: print("Identified Bird:", bird_species), then the end of the module
PrintStep ==
    /\ caller_pc = "line18"
    /\ stdout' = Append(stdout, Printed("Identified Bird:", bird_species[1]))
    /\ caller_pc' = "exit0"
    /\ UNCHANGED <<at_entry, openai_binding, disk, stub, api_key, pc, image_path,
                   image_file, response, exc,
                   result, open_files, requests, ncalls, history, bird_species>>

ScriptNext ==
    \/ ImportStep \/ SetApiKey \/ ScriptCall \/ OpenStep \/ CreateStep \/ WithExitStep
    \/ ExtractStep \/ ScriptAssign \/ ScriptCrash \/ PrintStep

ScriptSpec == ScriptInit /\ [][ScriptNext]_vars

\* ================================================================ claims
\* The error kinds of the specification, as the Python exceptions that
\* carry them.
Kind(e) ==
    IF e \in {"FileNotFoundError", "PermissionError"} THEN "FileNotFound"
    ELSE IF e \in RemoteErrors THEN "RemoteServiceError"
    ELSE IF e = "IndexError" THEN "MalformedResponse"
    ELSE "Other"

\* The current call is over and its caller has not yet resumed.
Ended == pc \in {"returned", "raised"}

\* The file of the current call could be opened when the call began.
Openable == at_entry.disk[image_path] \in Bytes

\* What the remote service does with the image of the current call.
Remote == stub[at_entry.disk[image_path]]

\* Number of outbound requests issued by call n.
RequestsOf(n) == Cardinality({i \in 1..Len(requests) : requests[i].call = n})

\* C1: for an openable path and a response with at least one choice, the call
\* returns exactly the message text of the first choice, whatever the further
\* choices are.
C1_ReturnsFirstChoice ==
    (Ended /\ Openable /\ Remote.raises = "none"
           /\ Len(Remote.response.choices) >= 1)
    => /\ pc = "returned"
       /\ exc = "none"
       /\ result = <<Remote.response.choices[1].message.content>>

C1_Witness ==
    /\ pc = "returned"
    /\ Openable
    /\ Len(Remote.response.choices) = 2
    /\ Remote.response.choices[1] # Remote.response.choices[2]
    /\ result = <<Remote.response.choices[1].message.content>>

\* C2: for a path that cannot be opened the call fails with the
\* FileNotFound/IOError kind, and at no point of the call has a request been
\* issued by it.
C2_OpenFailureBeforeRequest ==
    (pc # "none" /\ ~Openable)
    => /\ RequestsOf(ncalls) = 0
       /\ pc \in {"open", "raised"}
       /\ Ended => (pc = "raised" /\ Kind(exc) = "FileNotFound" /\ result = <<>>)

C2_Witness ==
    /\ pc = "raised"
    /\ at_entry.disk[image_path] = "ENOENT"
    /\ exc = "FileNotFoundError"
    /\ RequestsOf(ncalls) = 0
    /\ Len(requests) = 1

\* C3: the file handle is open only between the open and the exit of the with
\* block; whenever a call is over (returned, remote failure, extraction
\* failure) no handle is left open.
C3_HandleReleased ==
    pc \notin {"create", "with_exit"} => open_files = {}

C3_Witness ==
    /\ pc = "raised"
    /\ exc \in RemoteErrors
    /\ image_file # <<>>
    /\ open_files = {}

\* C4: the file opens and the response has zero choices: the call fails with
\* the MalformedResponse kind and returns nothing.
C4_ZeroChoicesFails ==
    (Ended /\ Openable /\ Remote.raises = "none"
           /\ Len(Remote.response.choices) = 0)
    => /\ pc = "raised"
       /\ Kind(exc) = "MalformedResponse"
       /\ result = <<>>

C4_Witness ==
    /\ pc = "raised"
    /\ Openable
    /\ response = <<[choices |-> <<>>]>>
    /\ exc = "IndexError"

\* C5: the file opens and the remote call fails: the call fails with that very
\* error, of the RemoteServiceError kind, and returns nothing.
C5_RemoteFailurePropagates ==
    (Ended /\ Openable /\ Remote.raises # "none")
    => /\ pc = "raised"
       /\ exc = Remote.raises
       /\ Kind(exc) = "RemoteServiceError"
       /\ result = <<>>

C5_Witness ==
    /\ pc = "raised"
    /\ Openable
    /\ Remote.raises = "Timeout"
    /\ exc = "Timeout"

Exited == caller_pc \in {"exit0", "exit1"}

\* C7: the script prints the one line "Identified Bird: <text>" exactly when
\* classify_bird("bird_image.jpg") returned <text>; when it raised, the script
\* ends in error and has printed nothing.
C7_PrintsIffSuccess ==
    /\ Len(stdout) <= 1
    /\ stdout # <<>> =>
          /\ Len(history) = 1
          /\ history[1].raised = "none"
          /\ stdout = <<"Identified Bird: " \o history[1].value[1] \o "\n">>
    /\ Exited =>
          /\ Len(history) = 1
          /\ history[1].path = "bird_image.jpg"
          /\ history[1].raised = "none" <=> Len(stdout) = 1
          /\ history[1].raised = "none" <=> caller_pc = "exit0"
          /\ history[1].raised # "none" <=> caller_pc = "exit1"

C7_Witness ==
    /\ caller_pc = "exit0"
    /\ history[1].value = <<"Blue Jay">>
    /\ stdout = <<"Identified Bird: Blue Jay\n">>

C9_SameInputSameOutcome ==
    /\ \A i, j \in 1..Len(history) :
          history[i].path = history[j].path => history[i] = history[j]
    /\ \A i \in 1..Len(history) :
          (Ended /\ history[i].path = image_path) => history[i] = Outcome

C9_Witness ==
    /\ Len(history) = 2
    /\ history[1].path = history[2].path
    /\ history[1].raised = "none"
    /\ history[2] = history[1]

\* C10: while a call runs and when it is over, the disk and the credential
\* are what they were when the call began.
C10_DiskAndKeyUnchanged ==
    pc # "none" => (disk = at_entry.disk /\ api_key = at_entry.api_key)

C10_Witness ==
    /\ pc = "returned"
    /\ Len(history) = 1
    /\ history[1].raised = "PermissionError"
    /\ disk = at_entry.disk
    /\ api_key = "your_openai_api_key"

====
